---------------------------- MODULE Spec2Model ----------------------------
(***************************************************************************)
(* Model of the two log-analysis scripts of packages/titan:                *)
(*   analyze-failures.py   (pattern counts, test-file mention tally)       *)
(*   detailed-analysis.py  (context windows, stack-frame parsing, dedup    *)
(*                          summary, origin tally)                         *)
(*                                                                         *)
(* A log document is a sequence of lines; a line is a sequence of text     *)
(* chunks ("tokens").  A token is the literal text of the chunk; the text  *)
(* of a line is its tokens joined by single spaces and ended by "\n", and  *)
(* the file is the concatenation of its lines.  The regular expressions    *)
(* of the scripts are modelled by what they match on such text: which      *)
(* token holds a match, and which one a greedy or leftmost search picks.   *)
(***************************************************************************)
EXTENDS Integers, Sequences, FiniteSets, TLC

VARIABLES
    lines,             \* detailed-analysis.py:4 / analyze-failures.py:5, the log
    pc,                \* position of the running script
    center,            \* the loop index i of detailed-analysis.py:8
    context_start,     \* detailed-analysis.py:11
    context_end,       \* detailed-analysis.py:12
    db_config_errors,  \* detailed-analysis.py:7
    seen,              \* detailed-analysis.py:30
    di,                \* position of the loop of detailed-analysis.py:31
    printed,           \* the File/Test/Line blocks printed at lines 35-37
    oi,                \* position of the loop of detailed-analysis.py:45
    origin_files,      \* detailed-analysis.py:44
    origin_printed,    \* the lines printed at detailed-analysis.py:54
    error_patterns,    \* analyze-failures.py:8
    test_files,        \* analyze-failures.py:17
    test_file_counts,  \* analyze-failures.py:18
    category_printed,  \* the lines printed at analyze-failures.py:24
    mention_printed,   \* the lines printed at analyze-failures.py:29
    total_printed      \* the number printed at analyze-failures.py:31

vars == <<lines, pc, center, context_start, context_end, db_config_errors,
          seen, di, printed, oi, origin_files, origin_printed,
          error_patterns, test_files, test_file_counts, category_printed,
          mention_printed, total_printed>>

Max(a, b) == IF a >= b THEN a ELSE b
Min(a, b) == IF a <= b THEN a ELSE b

----------------------------------------------------------------------------
(* Tokens: the text chunks log lines are made of.                          *)

PHRASE     == "Connection configuration is required for undefined"
FRAME_DB   == "at DatabaseManager.init (src/database.manager.ts:42:11)"
FRAME_SVC  == "at AppService.connect (src/app.service.ts:7:3)"
FRAME_TEST == "at Object.<anonymous> (test/db.spec.ts:10:5)"
SITE_UTIL  == "(src/util.ts:3:1)"
TEST_A     == "test/a.spec.ts:12"
TEST_B     == "test/b.spec.ts:8"
MARKER     == "parseConnectionConfig"
WORD       == "PASS"
REDIS      == "Redis connection error"
TIMED_OUT  == "Timed Out"
HC_TIMEOUT == "health check timed out"
HC_FAILED  == "Health check for redis failed"
NOGROUP    == "NOGROUP"
NOGROUP_LC == "nogroup"

\* The k-th test-file reference without a line number: "test/m11.spec.ts",
\* "test/m12.spec.ts", ... (16 characters each).
MentionTok(k) == "test/m" \o ToString(10 + k) \o ".spec.ts"

MentionToks == {MentionTok(k) : k \in 1..89}

IsMentionTok(t) == t \in MentionToks

\* Number of characters of a token's text.
TokLen(t) ==
    CASE t = PHRASE     -> 50
      [] t = FRAME_DB   -> 55
      [] t = FRAME_SVC  -> 46
      [] t = FRAME_TEST -> 44
      [] t = SITE_UTIL  -> 17
      [] t = TEST_A     -> 17
      [] t = TEST_B     -> 16
      [] t = MARKER     -> 21
      [] t = WORD       -> 4
      [] t = REDIS      -> 22
      [] t = TIMED_OUT  -> 9
      [] t = HC_TIMEOUT -> 22
      [] t = HC_FAILED  -> 29
      [] t = NOGROUP    -> 7
      [] t = NOGROUP_LC -> 7
      [] OTHER          -> 16

RECURSIVE SumTokLen(_)
SumTokLen(line) ==
    IF line = <<>> THEN 0 ELSE TokLen(Head(line)) + SumTokLen(Tail(line))

\* Characters of a line as readlines() returns it: tokens, spaces, "\n".
LineLen(line) == SumTokLen(line) + Max(0, Len(line) - 1) + 1

----------------------------------------------------------------------------
(* detailed-analysis.py: context window                                    *)

Lookback  == 5
Lookahead == 10
SnippetMax == 500
ScanCap == 20
DedupCap == 5
TopOrigins == 5
TopMentions == 10

\* context_start = max(0, i-5)
ContextStartMut(i) == Max(0, i + Lookback)
ContextStart(i) == Max(0, i - Lookback)

\* context_end = min(len(lines), i+10)
ContextEnd(n, i) == Min(n, i + Lookahead)

\* lines[a:b] for 0 <= a, 0 <= b (0-based, b exclusive) as a 1-based sequence
Slice(s, a, b) == IF a >= Min(b, Len(s)) THEN <<>> ELSE SubSeq(s, a + 1, Min(b, Len(s)))

----------------------------------------------------------------------------
(* detailed-analysis.py: stack-frame parsing                               *)

\* The token's text contains "at" (PHRASE: "configur-at-ion").
HasAt(t) == t \in {PHRASE, FRAME_DB, FRAME_SVC, FRAME_TEST}

\* The token's text holds "(<path>.ts:<line>:<col>)".
HasSite(t) == t \in {FRAME_DB, FRAME_SVC, FRAME_TEST, SITE_UTIL}

\* In the token's own text an "at" stands before the "(" of its site.
AtBeforeOwnSite(t) == t \in {FRAME_DB, FRAME_SVC, FRAME_TEST}

\* What group 1 of  at.*\((.*?\.ts:\d+:\d+)\)  captures at the token's site.
SiteOf(t) ==
    CASE t = FRAME_DB   -> "src/database.manager.ts:42:11"
      [] t = FRAME_SVC  -> "src/app.service.ts:7:3"
      [] t = FRAME_TEST -> "test/db.spec.ts:10:5"
      [] t = SITE_UTIL  -> "src/util.ts:3:1"

\* What group 1 of  at.*\(([^)]+\.ts):\d+:\d+\)  captures at the token's site.
PathOf(t) ==
    CASE t = FRAME_DB   -> "src/database.manager.ts"
      [] t = FRAME_SVC  -> "src/app.service.ts"
      [] t = FRAME_TEST -> "test/db.spec.ts"
      [] t = SITE_UTIL  -> "src/util.ts"

\* The sites of a line that a match of  at.*\(...\)  can end at: an "at"
\* stands somewhere before the site's "(" on the same line ("." matches no
\* newline).
MatchableSites(line) ==
    {j \in 1..Len(line) :
        /\ HasSite(line[j])
        /\ \E i \in 1..j : HasAt(line[i]) /\ (i < j \/ AtBeforeOwnSite(line[j]))}

\* The site a match on this line captures: the match starts at the leftmost
\* "at" and the greedy ".*" runs to the last "(" the rest can match from.
PickedSite(line) == CHOOSE j \in MatchableSites(line) : \A k \in MatchableSites(line) : j >= k

\* re.search(r'at.*\((.*?\.ts:\d+:\d+)\)', context): the first line with a
\* match decides; 'unknown' without one (line 21).
RECURSIVE FileSearch(_)
FileSearch(ctx) ==
    IF ctx = <<>> THEN "unknown"
    ELSE IF MatchableSites(Head(ctx)) # {} THEN SiteOf(Head(ctx)[PickedSite(Head(ctx))])
    ELSE FileSearch(Tail(ctx))

\* The token's text holds a match of  test/[^\s]+\.spec\.ts:\d+ .
HasTestId(t) == t \in {TEST_A, TEST_B, FRAME_TEST}

TestIdOf(t) ==
    CASE t = TEST_A     -> "test/a.spec.ts:12"
      [] t = TEST_B     -> "test/b.spec.ts:8"
      [] t = FRAME_TEST -> "test/db.spec.ts:10"

RECURSIVE FirstTestId(_)
FirstTestId(line) ==
    IF line = <<>> THEN "unknown"
    ELSE IF HasTestId(Head(line)) THEN TestIdOf(Head(line))
    ELSE FirstTestId(Tail(line))

\* re.search(r'test/[^\s]+\.spec\.ts:\d+', context): the leftmost match;
\* 'unknown' without one (line 22).
RECURSIVE TestSearch(_)
TestSearch(ctx) ==
    IF ctx = <<>> THEN "unknown"
    ELSE IF FirstTestId(Head(ctx)) # "unknown" THEN FirstTestId(Head(ctx))
    ELSE TestSearch(Tail(ctx))

\* The tokens of a line that lie wholly within its first `budget` characters.
RECURSIVE KeepTokens(_, _)
KeepTokens(line, budget) ==
    IF line = <<>> \/ TokLen(Head(line)) > budget THEN <<>>
    ELSE <<Head(line)>> \o KeepTokens(Tail(line), budget - TokLen(Head(line)) - 1)

\* context[:500] (line 23): the lines that fit whole, then the tokens of the
\* next line that fit whole.  A token cut short matches nothing any more (a
\* site loses its ")", the marker a letter) and is left out.
RECURSIVE Truncate(_, _)
Truncate(ctx, budget) ==
    IF ctx = <<>> \/ budget <= 0 THEN <<>>
    ELSE IF LineLen(Head(ctx)) <= budget
         THEN <<Head(ctx)>> \o Truncate(Tail(ctx), budget - LineLen(Head(ctx)))
         ELSE <<KeepTokens(Head(ctx), budget)>>

\* 'Connection configuration is required for undefined' in line  (line 9)
PhraseInLine(line) == \E j \in 1..Len(line) : line[j] = PHRASE

InfoMut(ls, i) ==
    LET context == Slice(ls, ContextStart(i), ContextEnd(Len(ls), i))
    IN  [line_num |-> i,
         file     |-> FileSearch(context),
         test     |-> TestSearch(context),
         snippet  |-> Truncate(context, SnippetMax)]

\* The info dict of lines 19-24 for the 0-based line index i.
Info(ls, i) ==
    LET context == Slice(ls, ContextStart(i), ContextEnd(Len(ls), i))
    IN  [line_num |-> i + 1,
         file     |-> FileSearch(context),
         test     |-> TestSearch(context),
         snippet  |-> Truncate(context, SnippetMax)]

\* The loop of lines 8-25 from line index i on.
RECURSIVE ScanFrom(_, _)
ScanFrom(ls, i) ==
    IF i >= Len(ls) THEN <<>>
    ELSE IF PhraseInLine(ls[i + 1]) THEN <<Info(ls, i)>> \o ScanFrom(ls, i + 1)
    ELSE ScanFrom(ls, i + 1)

----------------------------------------------------------------------------
(* collections.Counter: the keys in first-seen order, each with its count  *)

CounterAdd(c, x) ==
    IF \E j \in 1..Len(c) : c[j][1] = x
    THEN [j \in 1..Len(c) |-> IF c[j][1] = x THEN <<x, c[j][2] + 1>> ELSE c[j]]
    ELSE Append(c, <<x, 1>>)

RECURSIVE CounterFrom(_, _)
CounterFrom(c, xs) ==
    IF xs = <<>> THEN c ELSE CounterFrom(CounterAdd(c, Head(xs)), Tail(xs))

\* Counter(xs)
Counter(xs) == CounterFrom(<<>>, xs)

\* One step of a stable sort by count descending: e goes behind every item
\* whose count is at least its own.
InsertDescMut(sorted, e) ==
    LET k == Cardinality({j \in 1..Len(sorted) : sorted[j][2] > e[2]})
    IN  SubSeq(sorted, 1, k) \o <<e>> \o SubSeq(sorted, k + 1, Len(sorted))
InsertDesc(sorted, e) ==
    LET k == Cardinality({j \in 1..Len(sorted) : sorted[j][2] >= e[2]})
    IN  SubSeq(sorted, 1, k) \o <<e>> \o SubSeq(sorted, k + 1, Len(sorted))

RECURSIVE SortDescFrom(_, _)
SortDescFrom(sorted, items) ==
    IF items = <<>> THEN sorted
    ELSE SortDescFrom(InsertDesc(sorted, Head(items)), Tail(items))

\* sorted(items, key=lambda x: -x[1]); also sorted(items, key=itemgetter(1),
\* reverse=True): both are stable, equal counts keep the order of items.
SortedByCountDesc(items) == SortDescFrom(<<>>, items)

\* Counter.most_common(n) = heapq.nlargest(n, items, key=count), which the
\* library defines as sorted(items, key=count, reverse=True)[:n].
MostCommonMut(c, n) == SortedByCountDesc(c)
MostCommon(c, n) == SubSeq(SortedByCountDesc(c), 1, Min(n, Len(c)))

----------------------------------------------------------------------------
(* detailed-analysis.py: dedup summary and origin analysis                 *)

\* db_config_errors[:20]  (line 31)
ScanWindow(errs) == SubSeq(errs, 1, Min(ScanCap, Len(errs)))

\* key = (err['file'], err['test'])  (line 32)
Key(err) == <<err.file, err.test>>

\* len(seen) >= 5  (line 38)
CapReachedMut(s) == Cardinality(s) > DedupCap
CapReached(s) == Cardinality(s) >= DedupCap

\* 'parseConnectionConfig' in err['snippet']  (line 48)
MarkerIn(snippet) ==
    \E l \in 1..Len(snippet) : \E j \in 1..Len(snippet[l]) : snippet[l][j] = MARKER

\* 'database.manager.ts' in f  (line 48)
IsSuspectPath(f) == f = "src/database.manager.ts"

RECURSIVE FileMatchesMut(_)
FileMatchesMut(snippet) ==
    IF snippet = <<>> THEN <<>>
    ELSE IF MatchableSites(Head(snippet)) # {}
         THEN <<PathOf(Head(snippet)[PickedSite(Head(snippet))])>>
         ELSE FileMatchesMut(Tail(snippet))

\* re.findall(r'at.*\(([^)]+\.ts):\d+:\d+\)', err['snippet'])  (line 46): one
\* match a line at most, the greedy ".*" running to the line's last site.
RECURSIVE FileMatches(_)
FileMatches(snippet) ==
    IF snippet = <<>> THEN <<>>
    ELSE (IF MatchableSites(Head(snippet)) # {}
          THEN <<PathOf(Head(snippet)[PickedSite(Head(snippet))])>>
          ELSE <<>>) \o FileMatches(Tail(snippet))

\* The condition of line 48 for match f of an occurrence with this snippet.
QualifiesMut(f, snippet) == IsSuspectPath(f) /\ MarkerIn(snippet)
Qualifies(f, snippet) == IsSuspectPath(f) \/ MarkerIn(snippet)

RECURSIVE SelectQualifying(_, _)
SelectQualifying(fs, snippet) ==
    IF fs = <<>> THEN <<>>
    ELSE (IF Qualifies(Head(fs), snippet) THEN <<Head(fs)>> ELSE <<>>)
         \o SelectQualifying(Tail(fs), snippet)

\* What one pass of the loop body of lines 46-49 appends to origin_files.
OriginEntries(err) == SelectQualifying(FileMatches(err.snippet), err.snippet)

----------------------------------------------------------------------------
(* analyze-failures.py: pattern counts and test-file mentions              *)

\* The keys of error_patterns in declaration order (lines 9-13).
RuleNames == <<"Database Config Missing", "Redis Connection", "Timeout",
               "Health Check Failed", "NOGROUP Error">>

CountTokens(line, S) == Cardinality({j \in 1..Len(line) : line[j] \in S})

\* Matches of  health check.*failed|health check timed out  (IGNORECASE) on a
\* line: from the first "health check" the greedy ".*" runs to the line's
\* last "failed"; without one the second alternative matches the token alone.
RECURSIVE HealthMatches(_)
HealthMatches(line) ==
    IF line = <<>> THEN 0
    ELSE IF Head(line) \notin {HC_FAILED, HC_TIMEOUT} THEN HealthMatches(Tail(line))
    ELSE LET failed == {j \in 1..Len(line) : line[j] = HC_FAILED}
         IN  IF failed # {}
             THEN LET last == CHOOSE j \in failed : \A k \in failed : j >= k
                  IN  1 + HealthMatches(SubSeq(line, last + 1, Len(line)))
             ELSE 1 + HealthMatches(Tail(line))

\* len(re.findall(<pattern of the rule>, <text of the line>))
MatchesInLine(rule, line) ==
    CASE rule = "Database Config Missing" -> CountTokens(line, {PHRASE})
      [] rule = "Redis Connection"        -> CountTokens(line, {REDIS})
      [] rule = "Timeout"                 -> CountTokens(line, {TIMED_OUT, HC_TIMEOUT})
      [] rule = "Health Check Failed"     -> HealthMatches(line)
      [] rule = "NOGROUP Error"           -> CountTokens(line, {NOGROUP})

\* len(re.findall(pattern, content)): no pattern matches across a newline.
RECURSIVE CountMatches(_, _)
CountMatches(rule, ls) ==
    IF ls = <<>> THEN 0 ELSE MatchesInLine(rule, Head(ls)) + CountMatches(rule, Tail(ls))

\* The token's text holds a match of  test/[^\s]+\.spec\.ts .
HasTestFile(t) == t \in {TEST_A, TEST_B, FRAME_TEST} \/ IsMentionTok(t)

TestFileOf(t) ==
    CASE t = TEST_A     -> "test/a.spec.ts"
      [] t = TEST_B     -> "test/b.spec.ts"
      [] t = FRAME_TEST -> "test/db.spec.ts"
      [] OTHER          -> t

RECURSIVE TestFilesInLine(_)
TestFilesInLine(line) ==
    IF line = <<>> THEN <<>>
    ELSE (IF HasTestFile(Head(line)) THEN <<TestFileOf(Head(line))>> ELSE <<>>)
         \o TestFilesInLine(Tail(line))

\* re.findall(r'test/[^\s]+\.spec\.ts', content)  (line 17)
RECURSIVE FindTestFiles(_)
FindTestFiles(ls) ==
    IF ls = <<>> THEN <<>> ELSE TestFilesInLine(Head(ls)) \o FindTestFiles(Tail(ls))

\* error_patterns.items(): error_patterns[j] is the count of rule RuleNames[j]
Items(ep) == [j \in 1..Len(RuleNames) |-> <<RuleNames[j], ep[j]>>]

\* if count > 0  (line 23)
Shown(count) == count > 0

RECURSIVE SelectShown(_)
SelectShown(items) ==
    IF items = <<>> THEN <<>>
    ELSE (IF Shown(Head(items)[2]) THEN <<Head(items)>> ELSE <<>>)
         \o SelectShown(Tail(items))

----------------------------------------------------------------------------
(* The log documents the scripts are run on                                *)

MaxLen == 20        \* lines of a document of the line-by-line scan
MaxShort == 2       \* lines of a free-form document
MaxRun == 21        \* lines of the first run of a two-run document
MaxTailRun == 6     \* lines of its second run
MaxRot == 11        \* lines of a rotating document
MaxCount == 2       \* repetitions of a line in a pattern document
MaxRefs == 12       \* distinct test files of a mention document
MaxTailRefs == 2    \* repeated mentions behind them

Rep(line, n) == [j \in 1..n |-> line]

RECURSIVE SeqsUpTo(_, _)
SeqsUpTo(S, n) ==
    IF n = 0 THEN {<<>>}
    ELSE SeqsUpTo(S, n - 1) \cup {Append(q, x) : q \in SeqsUpTo(S, n - 1), x \in S}

DetLineTypes ==
    { <<>>, <<WORD>>, <<PHRASE>>, <<PHRASE, PHRASE>>, <<PHRASE, MARKER>>,
      <<PHRASE, FRAME_DB>>, <<FRAME_SVC, FRAME_DB>>, <<FRAME_DB, FRAME_SVC>>,
      <<FRAME_TEST>>, <<SITE_UTIL, PHRASE, TEST_A>>, <<PHRASE, SITE_UTIL>> }

RunLineTypes ==
    { <<WORD>>, <<PHRASE>>, <<PHRASE, FRAME_SVC>>, <<PHRASE, FRAME_DB, TEST_A>>,
      <<PHRASE, MARKER, TEST_B>> }

RotLineTypes ==
    << <<PHRASE, FRAME_DB, TEST_A>>, <<PHRASE, FRAME_SVC, TEST_A>>,
       <<PHRASE, FRAME_DB, TEST_B>>, <<PHRASE, FRAME_SVC, TEST_B>>,
       <<PHRASE, FRAME_TEST>>, <<PHRASE, SITE_UTIL, TEST_A>> >>

ShortDocs == SeqsUpTo(DetLineTypes, MaxShort)

RunDocs ==
    {Rep(a, n1) \o Rep(b, n2) :
        a \in RunLineTypes, b \in RunLineTypes, n1 \in 0..MaxRun, n2 \in 0..MaxTailRun}

RotDocs ==
    {[j \in 1..n |-> RotLineTypes[((j - 1) % d) + 1]] :
        d \in 1..Len(RotLineTypes), n \in 0..MaxRot}

DetailedDocs == ShortDocs \cup RunDocs \cup RotDocs

PatternLineTypes ==
    << <<PHRASE>>, <<REDIS>>, <<TIMED_OUT>>, <<HC_TIMEOUT>>,
       <<HC_FAILED, HC_FAILED>>, <<NOGROUP, NOGROUP_LC>> >>

RECURSIVE PatternDoc(_, _)
PatternDoc(n, k) ==
    IF k > Len(PatternLineTypes) THEN <<>>
    ELSE Rep(PatternLineTypes[k], n[k]) \o PatternDoc(n, k + 1)

PatternDocs == {PatternDoc(n, 1) : n \in [1..Len(PatternLineTypes) -> 0..MaxCount]}

\* k test files mentioned once each, then the last ones mentioned again.
MentionDoc(k, tail) ==
    [j \in 1..k |-> <<MentionTok(j)>>]
    \o [j \in 1..Len(tail) |-> <<WORD, MentionTok(k + 1 - tail[j])>>]

MentionDocs ==
    UNION {{MentionDoc(k, tail) :
               tail \in {t \in SeqsUpTo(1..3, MaxTailRefs) : \A j \in 1..Len(t) : t[j] <= k}} :
           k \in 0..MaxRefs}

AnalyzeDocs == PatternDocs \cup MentionDocs \cup ShortDocs

----------------------------------------------------------------------------
(* State machines                                                          *)

IdleWindow == center = 0 /\ context_start = 0 /\ context_end = 0

IdleDetailed ==
    /\ db_config_errors = <<>> /\ seen = {} /\ di = 0 /\ printed = <<>>
    /\ oi = 0 /\ origin_files = <<>> /\ origin_printed = <<>>

IdleAnalyze ==
    /\ error_patterns = [j \in 1..Len(RuleNames) |-> 0] /\ test_files = <<>>
    /\ test_file_counts = <<>> /\ category_printed = <<>>
    /\ mention_printed = <<>> /\ total_printed = 0

detailedVars == <<db_config_errors, seen, di, printed, oi, origin_files, origin_printed>>
analyzeVars == <<error_patterns, test_files, test_file_counts, category_printed,
                 mention_printed, total_printed>>
windowVars == <<center, context_start, context_end>>

(* ---- the scan loop of lines 8-25, one line a step ---- *)

\* Documents of plain lines with one block of lines that hold the phrase.
WindowDocs ==
    {Rep(<<WORD>>, t[1]) \o Rep(<<PHRASE>>, t[2]) \o Rep(<<WORD>>, t[3]) :
        t \in {u \in (0..MaxLen) \X (0..MaxLen) \X (0..MaxLen) :
                  u[1] + u[2] + u[3] <= MaxLen}}

InitWindow ==
    /\ IdleWindow /\ IdleDetailed /\ IdleAnalyze
    /\ lines \in WindowDocs
    /\ pc = IF lines = <<>> THEN "scanned" ELSE "scan_line"

\* lines 9-25 for a line that holds the phrase: i is center
ScanHit ==
    /\ pc = "scan_line"
    /\ PhraseInLine(lines[center + 1])
    /\ context_start' = ContextStart(center)
    /\ context_end' = ContextEnd(Len(lines), center)
    /\ db_config_errors' = Append(db_config_errors, Info(lines, center))
    /\ pc' = "scan_hit"
    /\ UNCHANGED <<lines, center, seen, di, printed, oi, origin_files,
                   origin_printed, analyzeVars>>

\* lines 9 and 8 for a line without the phrase that is not the last: the
\* for statement binds i to the next index
ScanSkip ==
    /\ pc = "scan_line"
    /\ ~PhraseInLine(lines[center + 1])
    /\ center + 1 < Len(lines)
    /\ center' = center + 1
    /\ UNCHANGED <<lines, pc, context_start, context_end, detailedVars, analyzeVars>>

\* line 8 behind an occurrence that is not on the last line
ScanNext ==
    /\ pc = "scan_hit"
    /\ center + 1 < Len(lines)
    /\ center' = center + 1
    /\ pc' = "scan_line"
    /\ UNCHANGED <<lines, context_start, context_end, detailedVars, analyzeVars>>

\* line 8 behind the last line: the loop is left and i keeps its value
ScanEnd ==
    /\ \/ pc = "scan_hit"
       \/ pc = "scan_line" /\ ~PhraseInLine(lines[center + 1])
    /\ center + 1 >= Len(lines)
    /\ pc' = "scanned"
    /\ UNCHANGED <<lines, windowVars, detailedVars, analyzeVars>>

NextWindow == ScanHit \/ ScanSkip \/ ScanNext \/ ScanEnd

SpecWindow == InitWindow /\ [][NextWindow]_vars

(* ---- detailed-analysis.py ---- *)

InitDetailed ==
    /\ IdleWindow /\ IdleDetailed /\ IdleAnalyze
    /\ lines \in DetailedDocs
    /\ pc = "scan"

\* lines 7-25
Scan ==
    /\ pc = "scan"
    /\ db_config_errors' = ScanFrom(lines, 0)
    /\ center' = IF lines = <<>> THEN center ELSE Len(lines) - 1
    /\ LET errs == ScanFrom(lines, 0)
           last == errs[Len(errs)].line_num - 1
       IN  IF errs = <<>>
           THEN UNCHANGED <<context_start, context_end>>
           ELSE /\ context_start' = ContextStart(last)
                /\ context_end' = ContextEnd(Len(lines), last)
    /\ pc' = "dedup"
    /\ UNCHANGED <<lines, seen, di, printed, oi, origin_files, origin_printed,
                   analyzeVars>>

\* one pass of the loop of lines 31-39
DedupStep ==
    /\ pc = "dedup"
    /\ di < Len(ScanWindow(db_config_errors))
    /\ LET err == ScanWindow(db_config_errors)[di + 1]
       IN  IF Key(err) \notin seen
           THEN /\ seen' = seen \cup {Key(err)}
                /\ printed' = Append(printed,
                      [file |-> err.file, test |-> err.test, line_num |-> err.line_num])
                /\ pc' = IF CapReached(seen') THEN "origin" ELSE "dedup"
           ELSE UNCHANGED <<seen, printed, pc>>
    /\ di' = di + 1
    /\ UNCHANGED <<lines, db_config_errors, oi, origin_files, origin_printed,
                   windowVars, analyzeVars>>

\* the loop of lines 31-39 runs out of occurrences
DedupEnd ==
    /\ pc = "dedup"
    /\ di >= Len(ScanWindow(db_config_errors))
    /\ pc' = "origin"
    /\ UNCHANGED <<lines, db_config_errors, seen, di, printed, oi, origin_files,
                   origin_printed, windowVars, analyzeVars>>

\* one pass of the loop of lines 45-49
OriginStep ==
    /\ pc = "origin"
    /\ oi < Len(db_config_errors)
    /\ origin_files' = origin_files \o OriginEntries(db_config_errors[oi + 1])
    /\ oi' = oi + 1
    /\ UNCHANGED <<lines, pc, db_config_errors, seen, di, printed, origin_printed,
                   windowVars, analyzeVars>>

\* lines 51-54
Tally ==
    /\ pc = "origin"
    /\ oi >= Len(db_config_errors)
    /\ origin_printed' = MostCommon(Counter(origin_files), TopOrigins)
    /\ pc' = "done"
    /\ UNCHANGED <<lines, db_config_errors, seen, di, printed, oi, origin_files,
                   windowVars, analyzeVars>>

Next == Scan \/ DedupStep \/ DedupEnd \/ OriginStep \/ Tally

Spec == InitDetailed /\ [][Next]_vars

(* ---- analyze-failures.py ---- *)

InitAnalyze ==
    /\ IdleWindow /\ IdleDetailed /\ IdleAnalyze
    /\ lines \in AnalyzeDocs
    /\ pc = "patterns"

\* lines 8-14
CountPatterns ==
    /\ pc = "patterns"
    /\ error_patterns' = [j \in 1..Len(RuleNames) |-> CountMatches(RuleNames[j], lines)]
    /\ pc' = "files"
    /\ UNCHANGED <<lines, test_files, test_file_counts, category_printed,
                   mention_printed, total_printed, windowVars, detailedVars>>

\* lines 17-18
CountTestFiles ==
    /\ pc = "files"
    /\ test_files' = FindTestFiles(lines)
    /\ test_file_counts' = Counter(test_files')
    /\ pc' = "categories"
    /\ UNCHANGED <<lines, error_patterns, category_printed, mention_printed,
                   total_printed, windowVars, detailedVars>>

\* lines 20-24
PrintCategories ==
    /\ pc = "categories"
    /\ category_printed' = SelectShown(SortedByCountDesc(Items(error_patterns)))
    /\ pc' = "mentions"
    /\ UNCHANGED <<lines, error_patterns, test_files, test_file_counts,
                   mention_printed, total_printed, windowVars, detailedVars>>

\* lines 26-31
PrintMentions ==
    /\ pc = "mentions"
    /\ mention_printed' = MostCommon(test_file_counts, TopMentions)
    /\ total_printed' = Len(test_file_counts)
    /\ pc' = "analyzed"
    /\ UNCHANGED <<lines, error_patterns, test_files, test_file_counts,
                   category_printed, windowVars, detailedVars>>

NextAnalyze == CountPatterns \/ CountTestFiles \/ PrintCategories \/ PrintMentions

SpecAnalyze == InitAnalyze /\ [][NextAnalyze]_vars

----------------------------------------------------------------------------
(* Context window claims (SpecWindow)                                      *)

\* C1: every window the scan computes, for a document of length L and the
\* index C of a line that holds the phrase, satisfies
\* 0 <= start <= C <= end <= L, and the extraction yields its occurrence.
C1_WindowBounds ==
    pc = "scan_hit" =>
        /\ 0 <= context_start /\ context_start <= center
        /\ center <= context_end /\ context_end <= Len(lines)
        /\ db_config_errors # <<>>
        /\ db_config_errors[Len(db_config_errors)].line_num = center + 1

\* Both ends are clamped: fewer than 5 lines stand before the center and
\* fewer than 9 behind it.
C1_Witness ==
    /\ pc = "scan_hit" /\ 0 < center /\ center < Lookback
    /\ context_start = 0
    /\ context_end = Len(lines) /\ context_end < center + Lookahead

\* C10 as stated: for an in-range center C the window holds the center line,
\* the min(5, C) lines before it and the min(10, L - 1 - C) lines behind it;
\* its length is at most 5 + 10 + 1 and is 5 + 10 + 1 when that many lines
\* are there.
C10_WindowExtent ==
    (pc = "scan_hit" /\ 0 <= center /\ center < Len(lines)) =>
        /\ context_start <= center /\ center < context_end
        /\ center - context_start = Min(Lookback, center)
        /\ context_end - 1 - center = Min(Lookahead, Len(lines) - 1 - center)
        /\ context_end - context_start <= Lookback + Lookahead + 1
        /\ (center >= Lookback /\ Len(lines) - 1 - center >= Lookahead)
              => context_end - context_start = Lookback + Lookahead + 1

----------------------------------------------------------------------------
(* detailed-analysis.py claims (Spec)                                      *)

Scanned == pc \in {"dedup", "origin", "done"}

PairOf(e) == <<e.file, e.test>>

\* The occurrences that are the first of their (file, test) pair.
FirstOfPair(errs) ==
    {j \in 1..Len(errs) : \A k \in 1..(j - 1) : PairOf(errs[k]) # PairOf(errs[j])}

\* The m-th smallest member of a set of numbers.
Nth(S, m) == CHOOSE j \in S : Cardinality({k \in S : k <= j}) = m

\* C2: the error-location summary never holds more than dedup_cap (5)
\* entries and never holds a (call site, test) pair twice, however many
\* occurrences there are.
C2_DedupCap ==
    /\ Len(printed) <= DedupCap
    /\ \A i \in 1..Len(printed) : \A j \in 1..Len(printed) :
          PairOf(printed[i]) = PairOf(printed[j]) => i = j

\* The summary is full and the log holds more distinct pairs than the cap.
C2_Witness ==
    /\ pc = "done" /\ Len(printed) = DedupCap
    /\ Cardinality(FirstOfPair(db_config_errors)) > DedupCap

\* C3 as stated: the summary is the first min(5, D) distinct pairs in order
\* of first appearance, D counted over ALL occurrences, each with the line
\* number of the pair's first occurrence.
C3_FirstDistinctOfAll ==
    pc = "done" =>
        LET firsts == FirstOfPair(db_config_errors)
        IN  /\ Len(printed) = Min(DedupCap, Cardinality(firsts))
            /\ \A m \in 1..Len(printed) :
                  LET e == db_config_errors[Nth(firsts, m)]
                  IN  printed[m] = [file |-> e.file, test |-> e.test,
                                    line_num |-> e.line_num]

\* The context window of an occurrence, from its line number.
WindowOf(e) ==
    Slice(lines, Max(0, e.line_num - 1 - Lookback),
          Min(Len(lines), e.line_num - 1 + Lookahead))

\* Positions <<line, token>> of the call sites of a window that stand behind
\* an "at" of their line, and of its test identifiers.
SitePositions(ctx) ==
    UNION {{<<l, j>> : j \in MatchableSites(ctx[l])} : l \in 1..Len(ctx)}

TestPositions(ctx) ==
    UNION {{<<l, j>> : j \in {k \in 1..Len(ctx[l]) : HasTestId(ctx[l][k])}} :
           l \in 1..Len(ctx)}

Before(p, q) == p[1] < q[1] \/ (p[1] = q[1] /\ p[2] <= q[2])

FirstPosition(P) == CHOOSE p \in P : \A q \in P : Before(p, q)

\* C6 as stated: the call-site reference of an occurrence is the call site
\* that comes first in document order in its window, on whatever lines the
\* call sites stand, and 'unknown' without one; the same for the test
\* identifier.
C6_FirstInDocumentOrder ==
    Scanned =>
        \A n \in 1..Len(db_config_errors) :
            LET e == db_config_errors[n]
                ctx == WindowOf(e)
                sp == SitePositions(ctx)
                tp == TestPositions(ctx)
            IN  /\ e.file = IF sp = {} THEN "unknown"
                            ELSE SiteOf(ctx[FirstPosition(sp)[1]][FirstPosition(sp)[2]])
                /\ e.test = IF tp = {} THEN "unknown"
                            ELSE TestIdOf(ctx[FirstPosition(tp)[1]][FirstPosition(tp)[2]])

PhraseRule == RuleNames[1]

PhraseLines == {i \in 1..Len(lines) : MatchesInLine(PhraseRule, lines[i]) >= 1}

Increasing(errs) ==
    \A j \in 1..(Len(errs) - 1) : errs[j].line_num < errs[j + 1].line_num

\* C9 as stated: one ErrorOccurrence per match of the phrase, so as many
\* occurrences as the 'Database Config Missing' count of analyze-failures
\* for the same document, in strictly increasing line-number order.
C9_OnePerMatch ==
    Scanned =>
        /\ Len(db_config_errors) = CountMatches(PhraseRule, lines)
        /\ Increasing(db_config_errors)

\* C9 amended: one ErrorOccurrence per LINE that holds the phrase, with that
\* line's 1-indexed number, in strictly increasing order; their number is at
\* most the 'Database Config Missing' count and equals it exactly when no
\* line holds the phrase twice.
C9_OnePerLine ==
    Scanned =>
        /\ {db_config_errors[j].line_num : j \in 1..Len(db_config_errors)} = PhraseLines
        /\ Len(db_config_errors) = Cardinality(PhraseLines)
        /\ Increasing(db_config_errors)
        /\ Len(db_config_errors) <= CountMatches(PhraseRule, lines)
        /\ (Len(db_config_errors) = CountMatches(PhraseRule, lines))
              <=> (\A i \in 1..Len(lines) : MatchesInLine(PhraseRule, lines[i]) <= 1)

\* Two occurrences, one of them on a line that holds the phrase twice.
C9_Witness ==
    /\ pc = "done" /\ Len(db_config_errors) >= 2
    /\ \E i \in 1..Len(lines) : MatchesInLine(PhraseRule, lines[i]) >= 2

\* The occurrence the loop of lines 45-49 handles next.
InOriginLoop == pc = "origin" /\ oi < Len(db_config_errors)

CurrentErr == db_config_errors[oi + 1]

\* What the step appended to origin_files.
Added == SubSeq(origin_files', Len(origin_files) + 1, Len(origin_files'))

\* 'database.manager.ts' in the occurrence's call-site reference (its File).
ModuleCondition(e) == e.file = SiteOf(FRAME_DB)

\* 'parseConnectionConfig' anywhere in the occurrence's snippet.
MarkerCondition(e) == MarkerIn(e.snippet)

\* The lines of a snippet that hold a call-site match, and the path matched.
MatchLines(snippet) == {l \in 1..Len(snippet) : MatchableSites(snippet[l]) # {}}

MatchPath(snippet, l) == PathOf(snippet[l][PickedSite(snippet[l])])

\* The call-site matches of an occurrence that pass the filter of line 48.
QualifyingLines(e) ==
    {l \in MatchLines(e.snippet) :
        MatchPath(e.snippet, l) = PathOf(FRAME_DB) \/ MarkerCondition(e)}

\* C4 as stated: an occurrence that meets only the module-name condition or
\* only the marker condition adds at least one entry to the origin tally.
C4_EitherConditionTallied ==
    [][(InOriginLoop /\ (ModuleCondition(CurrentErr) # MarkerCondition(CurrentErr)))
          => Len(origin_files') > Len(origin_files)]_vars

\* C4 amended: the filter is an inclusive OR applied to every call-site
\* match of the occurrence's snippet (one a line, capturing the line's last
\* call site): a matched path is tallied if and only if it names
\* database.manager.ts or the snippet holds the marker.  An occurrence with
\* a match whose captured path names database.manager.ts and no marker, or
\* with the marker and any match, adds at least one entry; an occurrence
\* whose snippet has no call-site match adds none, marker or not.
C4_InclusiveOrPerMatch ==
    [][InOriginLoop =>
          LET e == CurrentErr
              ml == MatchLines(e.snippet)
              db == {l \in ml : MatchPath(e.snippet, l) = PathOf(FRAME_DB)}
          IN  /\ SubSeq(origin_files', 1, Len(origin_files)) = origin_files
              /\ {Added[j] : j \in 1..Len(Added)}
                    = {MatchPath(e.snippet, l) : l \in
                          IF MarkerCondition(e) THEN ml ELSE db}
              /\ (db # {} /\ ~MarkerCondition(e)) => Len(Added) >= 1
              /\ (db = {} /\ MarkerCondition(e) /\ ml # {}) => Len(Added) >= 1
              /\ ml = {} => Added = <<>>]_vars

\* The first occurrence met only the marker condition, its snippet holds a
\* call site of another module, and it was tallied.
C4_Witness ==
    /\ pc = "origin" /\ oi = 1 /\ origin_files # <<>>
    /\ MarkerCondition(db_config_errors[1])
    /\ \A l \in MatchLines(db_config_errors[1].snippet) :
          MatchPath(db_config_errors[1].snippet, l) # PathOf(FRAME_DB)

\* C5 as stated: an occurrence that satisfies the suspect predicate adds
\* exactly one count, for its own call-site reference (its File field), and
\* any other occurrence adds none.
C5_OneCountPerOccurrence ==
    [][InOriginLoop =>
          IF ModuleCondition(CurrentErr) \/ MarkerCondition(CurrentErr)
          THEN origin_files' = Append(origin_files, CurrentErr.file)
          ELSE origin_files' = origin_files]_vars

RECURSIVE SumCounts(_)
SumCounts(c) == IF c = <<>> THEN 0 ELSE Head(c)[2] + SumCounts(Tail(c))

RECURSIVE SumQualifying(_, _)
SumQualifying(errs, n) ==
    IF n = 0 THEN 0
    ELSE Cardinality(QualifyingLines(errs[n])) + SumQualifying(errs, n - 1)

SitePaths == {PathOf(t) : t \in {FRAME_DB, FRAME_SVC, FRAME_TEST, SITE_UTIL}}

\* C5 amended: the tally is per call-site match: an occurrence adds one
\* count for each line of its snippet whose call-site match passes the
\* filter (none, one or several), under the matched path without line and
\* column, which is never the File field; the counts of the origin tally sum
\* to the number of such matches over all occurrences.
C5_OneCountPerMatch ==
    /\ Len(origin_files) = SumQualifying(db_config_errors, oi)
    /\ \A j \in 1..Len(origin_files) :
          /\ origin_files[j] \in SitePaths
          /\ \A n \in 1..Len(db_config_errors) :
                origin_files[j] # db_config_errors[n].file
    /\ (pc = "done" /\ Len(origin_printed) < TopOrigins)
          => SumCounts(origin_printed) = SumQualifying(db_config_errors, Len(db_config_errors))

\* The tally holds more counts than there are occurrences.
C5_Witness ==
    /\ pc = "done" /\ db_config_errors # <<>>
    /\ SumCounts(origin_printed) > Len(db_config_errors)

----------------------------------------------------------------------------
(* analyze-failures.py claims (SpecAnalyze)                                *)

RuleIndex(name) == CHOOSE j \in 1..Len(RuleNames) : RuleNames[j] = name

\* C7: the category list is exactly the rules with count > 0, each once,
\* by count descending, equal counts in declaration order; a rule with
\* count 0 never appears.
C7_CategoryView ==
    pc \in {"mentions", "analyzed"} =>
        LET cp == category_printed
        IN  /\ \A i \in 1..Len(cp) : \A j \in 1..Len(cp) : cp[i][1] = cp[j][1] => i = j
            /\ {cp[i][1] : i \in 1..Len(cp)}
                  = {RuleNames[j] : j \in {k \in 1..Len(RuleNames) : error_patterns[k] > 0}}
            /\ \A i \in 1..Len(cp) :
                  cp[i][2] = CountMatches(cp[i][1], lines) /\ cp[i][2] > 0
            /\ \A i \in 1..Len(cp) : \A j \in (i + 1)..Len(cp) :
                  \/ cp[i][2] > cp[j][2]
                  \/ cp[i][2] = cp[j][2] /\ RuleIndex(cp[i][1]) < RuleIndex(cp[j][1])

\* A rule with count 0, a tie between two shown rules, and a later rule
\* with a higher count than an earlier one.
C7_Witness ==
    /\ pc = "analyzed"
    /\ error_patterns[1] = 0
    /\ error_patterns[2] > 0 /\ error_patterns[2] = error_patterns[5]
    /\ error_patterns[3] > error_patterns[2]

Occurrences(xs, x) == Cardinality({j \in 1..Len(xs) : xs[j] = x})

FirstSeen(xs, x) == CHOOSE j \in 1..Len(xs) : xs[j] = x /\ \A k \in 1..(j - 1) : xs[k] # x

\* x ranks before y: more occurrences, or as many and seen first.
RanksBefore(xs, x, y) ==
    \/ Occurrences(xs, x) > Occurrences(xs, y)
    \/ Occurrences(xs, x) = Occurrences(xs, y) /\ FirstSeen(xs, x) < FirstSeen(xs, y)

\* C8: the mention list is the min(10, D) references with the highest
\* counts, by count descending, ties by first-seen order, each with its
\* number of occurrences; the total printed is D, the number of distinct
\* references.
C8_MentionView ==
    pc = "analyzed" =>
        LET mp == mention_printed
            refs == {test_files[j] : j \in 1..Len(test_files)}
            shown == {mp[i][1] : i \in 1..Len(mp)}
        IN  /\ total_printed = Cardinality(refs)
            /\ Len(mp) = Min(TopMentions, Cardinality(refs))
            /\ shown \subseteq refs /\ Cardinality(shown) = Len(mp)
            /\ \A i \in 1..Len(mp) : mp[i][2] = Occurrences(test_files, mp[i][1])
            /\ \A i \in 1..Len(mp) : \A j \in (i + 1)..Len(mp) :
                  RanksBefore(test_files, mp[i][1], mp[j][1])
            /\ \A x \in shown : \A y \in refs \ shown : RanksBefore(test_files, x, y)

\* More than ten distinct references, and the one printed first was not
\* the first seen.
C8_Witness ==
    /\ pc = "analyzed" /\ total_printed > TopMentions
    /\ Len(mention_printed) = TopMentions
    /\ mention_printed[1][1] # test_files[1]

=============================================================================
